---- MODULE Spec2Model ----
(***************************************************************************)
(* Hybrid RAG question answering (rag_gpt_ollama_sources.py): the          *)
(* process-wide FAISS index and document list, their two files on disk,    *)
(* the cache writer add_to_index, the two retrieval strategies online_rag  *)
(* and offline_rag, and the mode selection of the Streamlit script.        *)
(*                                                                         *)
(* Python positions are 0-based; TLA+ sequences are 1-based, so the entry  *)
(* at Python position p of a list l is l[p + 1].                           *)
(***************************************************************************)
EXTENDS Integers, Sequences, FiniteSets, TLC

\* ------------------------------------------------------------------ bounds
MaxStore == 3        \* cap on the number of vectors held by the index
MaxResults == 2      \* cap on the organic results of one live search
MaxFileLen == 2      \* cap on the entries of a file in the load-only spec
MaxFaults == 2       \* cap on crashes and failed file writes in a run
NumSessions == 2     \* Streamlit sessions sharing the cached resources

\* --------------------------------------------------------- program values
TopKDefault == 3     \* offline_rag(query, top_k=3)

Sessions == 1..NumSessions
MainSession == 1

\* the fixed answers of the two strategies (their leading symbols left out)
NoCacheMsg == "No offline data. Try online mode once to build cache."
NoMatchMsg == "No relevant offline information found."
NoResultsMsg == "No relevant web info found."
OllamaNotFoundMsg == "Ollama not found. Please install it from https://ollama.ai/"
OllamaErrorMsg == "Ollama Error"
Stdout == "<stdout>"

OnlineLabel == <<"Online", "(Serper + Ollama)">>
OfflineLabel == <<"Offline", "(FAISS + Ollama)">>

\* organic results the search provider may return (title, snippet, link)
Organic ==
  { [title |-> "Paris", snippet |-> "capital of France", link |-> "http://a"],
    [title |-> "Rome", snippet |-> "capital of Italy", link |-> ""] }

\* questions typed into the form (non-empty after strip)
Queries == { "capital of France", "capital of Italy" }

\* text = f"Title: {title}\nSnippet: {snippet}"; the later strip() removes
\* nothing, as no text here starts or ends with white space
ResultText(r) == "Title: " \o r.title \o "\nSnippet: " \o r.snippet

\* docs.append({"text": text.strip(), "source": link})
ResultDoc(r) == [text |-> ResultText(r), source |-> r.link]

WebDocs == { ResultDoc(r) : r \in Organic }

\* embedder.encode([text]): a fixed text -> vector table (one coordinate)
Embed(text) ==
  CASE text = "Title: Paris\nSnippet: capital of France" -> 0
    [] text = "Title: Rome\nSnippet: capital of Italy" -> 4
    [] text = "capital of France" -> 1
    [] text = "capital of Italy" -> 3
    [] OTHER -> 9

Vectors == { Embed(d.text) : d \in WebDocs }

\* squared Euclidean distance of IndexFlatL2
Dist(a, b) == (a - b) * (a - b)

Min(a, b) == IF a <= b THEN a ELSE b

\* ------------------------------------------------------------------- files
AbsentFile == [st |-> "absent", data |-> <<>>]
CorruptFile == [st |-> "corrupt", data |-> <<>>]
\* a file written from the list as it was before the last append
OkFile_before_append(d) ==
  [st |-> "ok", data |-> IF d = <<>> THEN d ELSE SubSeq(d, 1, Len(d) - 1)]

OkFile(d) == [st |-> "ok", data |-> d]

\* os.path.exists(path)
Exists(f) == f.st # "absent"

\* faiss.read_index / np.load raise on a truncated file
ReadRaises(f) == f.st # "ok"

VARIABLES
  index,            \* the vectors of the in-memory IndexFlatL2, in add order
  doc_store,        \* the in-memory list of {"text", "source"} documents
  vector_db_file,   \* the file rag_index.faiss
  doc_store_file,   \* the file rag_docs.npy
  up,               \* the process runs and load_faiss has returned
  loc,              \* per session: position and locals of the script run
  obs,              \* per session: what the current query has done so far
  acked,            \* the stores as of the last add_to_index that returned
  faults            \* crashes and failed file writes so far

vars == <<index, doc_store, vector_db_file, doc_store_file, up, loc, obs,
          acked, faults>>

stores == <<index, doc_store, vector_db_file, doc_store_file>>

\* ------------------------------------------------------- pure functions

\* load_faiss with the try around np.load only
load_faiss_try_docs_only(vf, df) ==
  IF Exists(vf) /\ Exists(df)
  THEN IF ReadRaises(vf)
       THEN [raised |-> TRUE, index |-> <<>>, docs |-> <<>>]
       ELSE IF ReadRaises(df)
            THEN [raised |-> FALSE, index |-> vf.data, docs |-> <<>>]
            ELSE [raised |-> FALSE, index |-> vf.data, docs |-> df.data]
  ELSE [raised |-> FALSE, index |-> <<>>, docs |-> <<>>]

\* load_faiss(): both files must exist; any read error falls back to empty
load_faiss(vf, df) ==
  IF Exists(vf) /\ Exists(df)
  THEN IF ReadRaises(vf) \/ ReadRaises(df)
       THEN [raised |-> FALSE, index |-> <<>>, docs |-> <<>>]
       ELSE [raised |-> FALSE, index |-> vf.data, docs |-> df.data]
  ELSE [raised |-> FALSE, index |-> <<>>, docs |-> <<>>]

\* mode selection that offers the radio whatever the probe says
SelectMode_radio_always(online_status, radio) == radio

\* sidebar: the radio is offered only when is_connected() returned True
SelectMode(online_status, radio) ==
  IF online_status THEN radio ELSE OfflineLabel

\* "Online" in mode
IsOnlineMode(mode) == \E j \in 1..Len(mode) : mode[j] = "Online"

\* a response of the search provider: an error, or a list of organic results
Responses(room) ==
  { [ok |-> FALSE, organic |-> <<>>] } \cup
  { [ok |-> TRUE, organic |-> o] :
      o \in UNION { [1..n -> Organic] : n \in 0..Min(MaxResults, room) } }

\* fetch_web_results(query): the documents of the response, [] on any error
fetch_web_results(resp) ==
  IF resp.ok
  THEN [j \in 1..Len(resp.organic) |-> ResultDoc(resp.organic[j])]
  ELSE <<>>

\* if docs is None
NoWebDocs_is_none(docs) == FALSE

\* if not docs  (online_rag)
NoWebDocs(docs) == docs = <<>>

\* if not doc_store and index.ntotal
NoOfflineData_and_ntotal(ds, idx) == ds = <<>> /\ Len(idx) # 0

\* if not doc_store or index.ntotal == 0  (offline_rag)
NoOfflineData(ds, idx) == ds = <<>> \/ Len(idx) = 0

\* index.search(vec, top_k): the labels of the top_k nearest vectors, nearest
\* first, padded with -1 when the index holds fewer than top_k vectors; the
\* order among equidistant vectors is left open
Search(idx, v, k) ==
  LET n == Len(idx)
      m == Min(k, n)
  IN { r \in [1..k -> (-1)..(n - 1)] :
         /\ \A j \in 1..m : r[j] >= 0
         /\ \A j \in (m + 1)..k : r[j] = -1
         /\ \A a, b \in 1..m :
              a < b => /\ r[a] # r[b]
                       /\ Dist(idx[r[a] + 1], v) <= Dist(idx[r[b] + 1], v)
         /\ \A p \in 0..(n - 1) :
              (\A j \in 1..m : r[j] # p) =>
                 \A j \in 1..m : Dist(idx[r[j] + 1], v) <= Dist(idx[p + 1], v) }

\* l[i] of a Python list: a negative i counts from the end
PyInRange(l, i) == i < Len(l) /\ i >= 0 - Len(l)
PyGet(l, i) == IF i >= 0 THEN l[i + 1] ELSE l[Len(l) + i + 1]

\* the labels kept by   for i in idx[0] if i < len(doc_store)
RECURSIVE KeptLabels(_, _)
KeptLabels(r, len) ==
  IF r = <<>> THEN <<>>
  ELSE IF Head(r) < len
       THEN <<Head(r)>> \o KeptLabels(Tail(r), len)
       ELSE KeptLabels(Tail(r), len)

\* docs = [doc_store[i] for i in idx[0] if i < len(doc_store)]
OfflineDocs(ds, r) ==
  LET kept == KeptLabels(r, Len(ds))
  IN IF \E j \in 1..Len(kept) : ~PyInRange(ds, kept[j])
     THEN [raised |-> TRUE, docs |-> <<>>]
     ELSE [raised |-> FALSE,
           docs |-> [j \in 1..Len(kept) |-> PyGet(ds, kept[j])]]

\* sources = [d["source"] for d in docs if d["source"]]
RECURSIVE Sources(_)
Sources(docs) ==
  IF docs = <<>> THEN <<>>
  ELSE IF Head(docs).source # ""
       THEN <<Head(docs).source>> \o Sources(Tail(docs))
       ELSE Sources(Tail(docs))

\* context = "\n\n".join(d["text"] for d in docs): the texts, in order
Context(docs) == [j \in 1..Len(docs) |-> docs[j].text]

\* what generate_with_ollama may return
GenerateResults == { Stdout, OllamaNotFoundMsg, OllamaErrorMsg }

\* the outcome a returned answer stands for
Status(answer) ==
  CASE answer = NoCacheMsg -> "NoCache"
    [] answer = NoMatchMsg -> "NoMatch"
    [] answer = NoResultsMsg -> "NoResults"
    [] answer = "" -> "None"
    [] OTHER -> "Ok"

\* ------------------------------------------------------------ initial state

IdleLoc ==
  [pc |-> "idle", query |-> "", top_k |-> TopKDefault,
   online_status |-> FALSE, mode |-> OfflineLabel,
   docs |-> <<>>, i |-> 0, vec |-> 0, arr |-> <<>>, idx |-> <<>>,
   answer |-> "", sources |-> <<>>, raised |-> FALSE]

IdleObs ==
  [radio |-> OfflineLabel, route |-> "none", after_online |-> FALSE,
   fetch_calls |-> 0, fetch_failed |-> FALSE, fetched |-> <<>>,
   add_calls |-> 0, add_returns |-> 0, add_raised |-> FALSE,
   encode_calls |-> 0, search_calls |-> 0,
   generate_calls |-> 0, context |-> <<>>,
   start_ntotal |-> 0, start_len |-> 0]

\* the process has not started; nothing has been persisted yet
Init ==
  /\ index = <<>>
  /\ doc_store = <<>>
  /\ vector_db_file = AbsentFile
  /\ doc_store_file = AbsentFile
  /\ up = FALSE
  /\ loc = [s \in Sessions |-> IdleLoc]
  /\ obs = [s \in Sessions |-> IdleObs]
  /\ acked = [index |-> <<>>, docs |-> <<>>]
  /\ faults = 0

\* ------------------------------------------------------ process start, crash

\* index, doc_store = load_faiss()  at process start
LoadFaiss ==
  /\ ~up
  /\ LET r == load_faiss(vector_db_file, doc_store_file)
     IN /\ up' = ~r.raised
        /\ index' = r.index
        /\ doc_store' = r.docs
        /\ acked' = [index |-> r.index, docs |-> r.docs]
  /\ UNCHANGED <<vector_db_file, doc_store_file, loc, obs, faults>>

\* the process dies: memory and all script runs are lost, the files stay
Crash ==
  /\ up
  /\ faults < MaxFaults
  /\ faults' = faults + 1
  /\ up' = FALSE
  /\ index' = <<>>
  /\ doc_store' = <<>>
  /\ loc' = [s \in Sessions |-> IdleLoc]
  /\ obs' = [s \in Sessions |-> IdleObs]
  /\ UNCHANGED <<vector_db_file, doc_store_file, acked>>

\* an uncaught exception ends the script run of session s
Raise(s) ==
  loc' = [loc EXCEPT ![s].pc = "done", ![s].raised = TRUE]

\* ------------------------------------------------------------ script run

\* the previous run of s was an online retrieval for q that wrote its results
JustWarmed(s, q) ==
  /\ loc[s].pc = "done"
  /\ obs[s].route = "online"
  /\ ~loc[s].raised
  /\ obs[s].fetched # <<>>
  /\ loc[s].query = q

\* sidebar mode selection and  if submit and query.strip():
Submit(s) ==
  /\ up
  /\ loc[s].pc \in {"idle", "done"}
  /\ \E q \in Queries, status \in BOOLEAN, radio \in {OnlineLabel, OfflineLabel},
        k \in 1..TopKDefault :
       LET mode == SelectMode(status, radio)
           online == IsOnlineMode(mode)
       IN /\ online => k = TopKDefault
          /\ loc' = [loc EXCEPT ![s] =
               [IdleLoc EXCEPT !.pc = IF online THEN "fetch_web_results"
                                                 ELSE "off_check",
                               !.query = q, !.top_k = k,
                               !.online_status = status, !.mode = mode]]
          /\ obs' = [obs EXCEPT ![s] =
               [IdleObs EXCEPT !.radio = radio,
                               !.route = IF online THEN "online" ELSE "offline",
                               !.after_online = ~online /\ JustWarmed(s, q),
                               !.start_ntotal = Len(index),
                               !.start_len = Len(doc_store)]]
  /\ UNCHANGED <<index, doc_store, vector_db_file, doc_store_file, up, acked, faults>>

\* the documents session t has fetched and not yet added to the index
Pending(t) ==
  IF loc[t].pc \in {"for", "add_encode", "add_index_add"}
  THEN Len(loc[t].docs) - loc[t].i
  ELSE IF loc[t].pc \in {"add_doc_append", "add_write_index", "add_write_index_data",
                         "add_np_save", "add_np_save_data"}
       THEN Len(loc[t].docs) - loc[t].i - 1
       ELSE 0

RECURSIVE SumPending(_)
SumPending(S) ==
  IF S = {} THEN 0
  ELSE LET t == CHOOSE x \in S : TRUE
       IN Pending(t) + SumPending(S \ {t})

\* the results session s may still fetch without the index passing MaxStore
Room(s) == MaxStore - Len(index) - SumPending(Sessions \ {s})

\* online_rag: docs = fetch_web_results(query); if not docs: return ...
Fetch(s) ==
  /\ up
  /\ loc[s].pc = "fetch_web_results"
  /\ \E resp \in Responses(Room(s)) :
       LET docs == fetch_web_results(resp)
       IN /\ loc' = [loc EXCEPT
               ![s].docs = docs,
               ![s].pc = IF NoWebDocs(docs) THEN "done" ELSE "for",
               ![s].answer = IF NoWebDocs(docs) THEN NoResultsMsg ELSE "",
               ![s].sources = <<>>]
          /\ obs' = [obs EXCEPT ![s].fetch_calls = @ + 1,
                                ![s].fetch_failed = ~resp.ok,
                                ![s].fetched = docs]
  /\ UNCHANGED <<index, doc_store, vector_db_file, doc_store_file, up, acked, faults>>

\* for d in docs: add_to_index(d["text"], d["source"])
ForDocs(s) ==
  /\ up
  /\ loc[s].pc = "for"
  /\ IF loc[s].i < Len(loc[s].docs)
     THEN /\ loc' = [loc EXCEPT ![s].pc = "add_encode"]
          /\ obs' = [obs EXCEPT ![s].add_calls = @ + 1]
     ELSE /\ loc' = [loc EXCEPT ![s].pc = "generate"]
          /\ obs' = obs
  /\ UNCHANGED <<index, doc_store, vector_db_file, doc_store_file, up, acked, faults>>

\* add_to_index that appends the document before it encodes the text
AddEncode_append_first(s) ==
  /\ up
  /\ loc[s].pc = "add_encode"
  /\ \/ /\ loc' = [loc EXCEPT ![s].vec = Embed(loc[s].docs[loc[s].i + 1].text),
                              ![s].pc = "add_index_add"]
        /\ obs' = obs
        /\ UNCHANGED doc_store
     \/ /\ Raise(s)
        /\ obs' = [obs EXCEPT ![s].add_raised = TRUE]
        /\ doc_store' = Append(doc_store, loc[s].docs[loc[s].i + 1])
  /\ UNCHANGED <<index, vector_db_file, doc_store_file, up, acked, faults>>

\* add_to_index: vec = embedder.encode([text])
AddEncode(s) ==
  /\ up
  /\ loc[s].pc = "add_encode"
  /\ \/ /\ loc' = [loc EXCEPT ![s].vec = Embed(loc[s].docs[loc[s].i + 1].text),
                              ![s].pc = "add_index_add"]
        /\ obs' = obs
     \/ /\ Raise(s)
        /\ obs' = [obs EXCEPT ![s].add_raised = TRUE]
  /\ UNCHANGED <<index, doc_store, vector_db_file, doc_store_file, up, acked, faults>>

\* add_to_index: index.add(vec)
AddIndexAdd(s) ==
  /\ up
  /\ loc[s].pc = "add_index_add"
  /\ index' = Append(index, loc[s].vec)
  /\ loc' = [loc EXCEPT ![s].pc = "add_doc_append"]
  /\ UNCHANGED <<doc_store, vector_db_file, doc_store_file, up, obs, acked, faults>>

\* add_to_index that leaves out a document doc_store already holds
AddDocAppend_skip_cached(s) ==
  /\ up
  /\ loc[s].pc = "add_doc_append"
  /\ doc_store' =
       IF \E p \in 1..Len(doc_store) : doc_store[p] = loc[s].docs[loc[s].i + 1]
       THEN doc_store
       ELSE Append(doc_store, loc[s].docs[loc[s].i + 1])
  /\ loc' = [loc EXCEPT ![s].pc = "add_write_index"]
  /\ UNCHANGED <<index, vector_db_file, doc_store_file, up, obs, acked, faults>>

\* add_to_index with doc_store.insert(0, ...) in place of append
AddDocAppend_insert_front(s) ==
  /\ up
  /\ loc[s].pc = "add_doc_append"
  /\ doc_store' = <<loc[s].docs[loc[s].i + 1]>> \o doc_store
  /\ loc' = [loc EXCEPT ![s].pc = "add_write_index"]
  /\ UNCHANGED <<index, vector_db_file, doc_store_file, up, obs, acked, faults>>

\* add_to_index: doc_store.append({"text": text, "source": source})
AddDocAppend(s) ==
  /\ up
  /\ loc[s].pc = "add_doc_append"
  /\ doc_store' = Append(doc_store, loc[s].docs[loc[s].i + 1])
  /\ loc' = [loc EXCEPT ![s].pc = "add_write_index"]
  /\ UNCHANGED <<index, vector_db_file, doc_store_file, up, obs, acked, faults>>

\* add_to_index: faiss.write_index opens rag_index.faiss for writing, which
\* truncates it, or fails to open it
AddWriteIndexOpen(s) ==
  /\ up
  /\ loc[s].pc = "add_write_index"
  /\ \/ /\ vector_db_file' = CorruptFile
        /\ loc' = [loc EXCEPT ![s].pc = "add_write_index_data"]
        /\ obs' = obs
        /\ UNCHANGED faults
     \/ /\ faults < MaxFaults
        /\ faults' = faults + 1
        /\ Raise(s)
        /\ obs' = [obs EXCEPT ![s].add_raised = TRUE]
        /\ UNCHANGED vector_db_file
  /\ UNCHANGED <<index, doc_store, doc_store_file, up, acked>>

\* add_to_index: faiss.write_index writes the whole index and closes the
\* file, or fails part way
AddWriteIndexData(s) ==
  /\ up
  /\ loc[s].pc = "add_write_index_data"
  /\ \/ /\ vector_db_file' = OkFile(index)
        /\ loc' = [loc EXCEPT ![s].pc = "add_np_save"]
        /\ obs' = obs
        /\ UNCHANGED faults
     \/ /\ faults < MaxFaults
        /\ faults' = faults + 1
        /\ Raise(s)
        /\ obs' = [obs EXCEPT ![s].add_raised = TRUE]
        /\ UNCHANGED vector_db_file
  /\ UNCHANGED <<index, doc_store, doc_store_file, up, acked>>

\* add_to_index: np.save builds np.array(doc_store) and opens rag_docs.npy
\* for writing, which truncates it, or fails to open it
AddNpSaveOpen(s) ==
  /\ up
  /\ loc[s].pc = "add_np_save"
  /\ \/ /\ doc_store_file' = CorruptFile
        /\ loc' = [loc EXCEPT ![s].pc = "add_np_save_data",
                              ![s].arr = doc_store]
        /\ obs' = obs
        /\ UNCHANGED faults
     \/ /\ faults < MaxFaults
        /\ faults' = faults + 1
        /\ Raise(s)
        /\ obs' = [obs EXCEPT ![s].add_raised = TRUE]
        /\ UNCHANGED doc_store_file
  /\ UNCHANGED <<index, doc_store, vector_db_file, up, acked>>

\* add_to_index: np.save writes the array and closes the file, or fails part
\* way; on success add_to_index returns and the loop goes on
AddNpSaveData(s) ==
  /\ up
  /\ loc[s].pc = "add_np_save_data"
  /\ \/ /\ doc_store_file' = OkFile(loc[s].arr)
        /\ loc' = [loc EXCEPT ![s].pc = "for", ![s].i = @ + 1,
                              ![s].arr = <<>>]
        /\ obs' = [obs EXCEPT ![s].add_returns = @ + 1]
        /\ acked' = [index |-> index, docs |-> doc_store]
        /\ UNCHANGED faults
     \/ /\ faults < MaxFaults
        /\ faults' = faults + 1
        /\ Raise(s)
        /\ obs' = [obs EXCEPT ![s].add_raised = TRUE]
        /\ UNCHANGED <<doc_store_file, acked>>
  /\ UNCHANGED <<index, doc_store, vector_db_file, up>>

\* generation that is tried a second time after a backend failure
Generate_retry_once(s) ==
  /\ up
  /\ loc[s].pc = "generate"
  /\ \E out \in GenerateResults :
       loc' = [loc EXCEPT ![s].answer = out,
                          ![s].sources = Sources(loc[s].docs),
                          ![s].pc = IF out # Stdout /\ obs[s].generate_calls = 0
                                    THEN "generate" ELSE "done"]
  /\ obs' = [obs EXCEPT ![s].generate_calls = @ + 1,
                        ![s].context = Context(loc[s].docs)]
  /\ UNCHANGED <<index, doc_store, vector_db_file, doc_store_file, up, acked, faults>>

\* return generate_with_ollama(prompt), sources   (either strategy)
Generate(s) ==
  /\ up
  /\ loc[s].pc = "generate"
  /\ \E out \in GenerateResults :
       loc' = [loc EXCEPT ![s].answer = out,
                          ![s].sources = Sources(loc[s].docs),
                          ![s].pc = "done"]
  /\ obs' = [obs EXCEPT ![s].generate_calls = @ + 1,
                        ![s].context = Context(loc[s].docs)]
  /\ UNCHANGED <<index, doc_store, vector_db_file, doc_store_file, up, acked, faults>>

\* offline_rag: if not doc_store or index.ntotal == 0: return ...
OffCheck(s) ==
  /\ up
  /\ loc[s].pc = "off_check"
  /\ IF NoOfflineData(doc_store, index)
     THEN loc' = [loc EXCEPT ![s].answer = NoCacheMsg, ![s].sources = <<>>,
                             ![s].pc = "done"]
     ELSE loc' = [loc EXCEPT ![s].pc = "off_encode"]
  /\ UNCHANGED <<index, doc_store, vector_db_file, doc_store_file, up, obs, acked, faults>>

\* offline_rag: vec = embedder.encode([query])
OffEncode(s) ==
  /\ up
  /\ loc[s].pc = "off_encode"
  /\ \/ loc' = [loc EXCEPT ![s].vec = Embed(loc[s].query),
                           ![s].pc = "off_search"]
     \/ Raise(s)
  /\ obs' = [obs EXCEPT ![s].encode_calls = @ + 1]
  /\ UNCHANGED <<index, doc_store, vector_db_file, doc_store_file, up, acked, faults>>

\* offline_rag: _, idx = index.search(vec, top_k)
OffSearch(s) ==
  /\ up
  /\ loc[s].pc = "off_search"
  /\ \E r \in Search(index, loc[s].vec, loc[s].top_k) :
       loc' = [loc EXCEPT ![s].idx = r, ![s].pc = "off_filter"]
  /\ obs' = [obs EXCEPT ![s].search_calls = @ + 1]
  /\ UNCHANGED <<index, doc_store, vector_db_file, doc_store_file, up, acked, faults>>

\* offline_rag that stores the documents it retrieved as new cache entries
OffFilter_caches_evidence(s) ==
  /\ up
  /\ loc[s].pc = "off_filter"
  /\ LET r == OfflineDocs(doc_store, loc[s].idx)
     IN IF r.raised
        THEN /\ Raise(s)
             /\ UNCHANGED doc_store
        ELSE IF r.docs = <<>>
        THEN /\ loc' = [loc EXCEPT ![s].docs = r.docs, ![s].answer = NoMatchMsg,
                                   ![s].sources = <<>>, ![s].pc = "done"]
             /\ UNCHANGED doc_store
        ELSE /\ loc' = [loc EXCEPT ![s].docs = r.docs, ![s].pc = "generate"]
             /\ doc_store' = Append(doc_store, r.docs[1])
  /\ UNCHANGED <<index, vector_db_file, doc_store_file, up, obs, acked, faults>>

\* offline_rag: docs = [...]; if not docs: return ...
OffFilter(s) ==
  /\ up
  /\ loc[s].pc = "off_filter"
  /\ LET r == OfflineDocs(doc_store, loc[s].idx)
     IN IF r.raised
        THEN Raise(s)
        ELSE IF r.docs = <<>>
        THEN loc' = [loc EXCEPT ![s].docs = r.docs, ![s].answer = NoMatchMsg,
                                ![s].sources = <<>>, ![s].pc = "done"]
        ELSE loc' = [loc EXCEPT ![s].docs = r.docs, ![s].pc = "generate"]
  /\ UNCHANGED <<index, doc_store, vector_db_file, doc_store_file, up, obs, acked, faults>>

Run(s) ==
  \/ Submit(s)
  \/ Fetch(s)
  \/ ForDocs(s)
  \/ AddEncode(s)
  \/ AddIndexAdd(s)
  \/ AddDocAppend(s)
  \/ AddWriteIndexOpen(s)
  \/ AddWriteIndexData(s)
  \/ AddNpSaveOpen(s)
  \/ AddNpSaveData(s)
  \/ Generate(s)
  \/ OffCheck(s)
  \/ OffEncode(s)
  \/ OffSearch(s)
  \/ OffFilter(s)

\* one session at a time: the script runs of the base design
Next ==
  \/ LoadFaiss
  \/ Crash
  \/ Run(MainSession)

Spec == Init /\ [][Next]_vars

\* --------------------------------------------------- load_faiss on any disk

Seqs(S, n) == UNION { [1..m -> S] : m \in 0..n }

FileStates(S) == { AbsentFile, CorruptFile } \cup { OkFile(d) : d \in Seqs(S, MaxFileLen) }

\* the process starts on an arbitrary pair of files
InitLoad ==
  /\ index = <<>>
  /\ doc_store = <<>>
  /\ vector_db_file \in FileStates(Vectors)
  /\ doc_store_file \in FileStates(WebDocs)
  /\ up = FALSE
  /\ loc = [s \in Sessions |-> IdleLoc]
  /\ obs = [s \in Sessions |-> IdleObs]
  /\ acked = [index |-> <<>>, docs |-> <<>>]
  /\ faults = 0

NextLoad == LoadFaiss

SpecLoad == InitLoad /\ [][NextLoad]_vars

\* ------------------------------------------------------------- properties

IsPrefix(a, b) == Len(a) <= Len(b) /\ \A p \in 1..Len(a) : a[p] = b[p]

\* the stores have equal length and each document sits at the position of
\* the vector it was written with
Aligned(idx, ds) ==
  /\ Len(ds) = Len(idx)
  /\ \A p \in 1..Len(idx) : idx[p] = Embed(ds[p].text)

OnlinePcs ==
  { "fetch_web_results", "for", "add_encode", "add_index_add", "add_doc_append",
    "add_write_index", "add_write_index_data", "add_np_save", "add_np_save_data" }

\* C1: after every add_to_index that returned, the document list and the
\* index have the same length and position i of one describes position i of
\* the other, whatever load_faiss returned at process start.
C1_AlignedAfterWrite ==
  \A s \in Sessions :
    (loc[s].pc = "for" /\ loc[s].i > 0) => Aligned(index, doc_store)

\* C2: whatever the point of a crash or failed file write, the two files never
\* hold different entry counts, so load_faiss returns an index and a document
\* list of equal length.
C2_NoMismatchedPersistedState ==
  [][(~up /\ up') =>
        /\ (vector_db_file.st = "ok" /\ doc_store_file.st = "ok")
              => Len(vector_db_file.data) = Len(doc_store_file.data)
        /\ Len(index') = Len(doc_store')]_vars

\* C3: after a crash at any point, load_faiss can read the files and returns
\* every entry whose add_to_index had returned, at its position.
C3_CrashDurability ==
  [][~up =>
        /\ up'
        /\ IsPrefix(acked.index, index')
        /\ IsPrefix(acked.docs, doc_store')]_vars

\* the labels of r that are entry positions of a cache of n entries
RECURSIVE ValidLabels(_, _)
ValidLabels(r, n) ==
  IF r = <<>> THEN <<>>
  ELSE IF Head(r) >= 0 /\ Head(r) < n
       THEN <<Head(r)>> \o ValidLabels(Tail(r), n)
       ELSE ValidLabels(Tail(r), n)

\* C4: on an aligned cache of n >= 1 entries, offline_rag's evidence is the
\* documents at the valid positions the search returned, nearest first, each
\* position once, at most min(top_k, n) of them; a label that is no entry
\* position (the -1 filler included) contributes nothing.
C4_OfflineEvidenceBound ==
  \A s \in Sessions :
    ( /\ obs[s].route = "offline"
      /\ loc[s].pc \in {"generate", "done"}
      /\ obs[s].search_calls = 1
      /\ ~loc[s].raised
      /\ Aligned(index, doc_store) )
    => LET n == Len(doc_store)
           valid == ValidLabels(loc[s].idx, n)
           v == Embed(loc[s].query)
       IN /\ Len(loc[s].docs) <= Min(loc[s].top_k, n)
          /\ loc[s].docs = [j \in 1..Len(valid) |-> doc_store[valid[j] + 1]]
          /\ \A a, b \in 1..Len(valid) :
               a < b => /\ valid[a] # valid[b]
                        /\ Dist(index[valid[a] + 1], v) <= Dist(index[valid[b] + 1], v)

\* C5: when add_to_index fails for one result document, online_rag still
\* writes the other documents and returns an answer generated from all the
\* search results.
C5_WriteFailureSkipped ==
  \A s \in Sessions :
    (obs[s].route = "online" /\ loc[s].pc = "done" /\ obs[s].add_raised)
    => /\ ~loc[s].raised
       /\ Status(loc[s].answer) = "Ok"
       /\ obs[s].add_calls = Len(obs[s].fetched)
       /\ obs[s].context = Context(obs[s].fetched)

\* the search of session s had only one possible result
SearchDetermined(s) ==
  Cardinality(Search(index, Embed(loc[s].query), loc[s].top_k)) = 1

\* C6: an offline_rag(X) that directly follows an online_rag(X) which found
\* results and wrote them never ends in the no-data or no-match answer: it
\* generates from non-empty evidence.  Stated for the searches whose result
\* is fixed by the distances, so that a violation does not rest on the order
\* the index gives to equidistant vectors.
C6_OnlineWarmsOffline ==
  \A s \in Sessions :
    ( /\ obs[s].after_online
      /\ loc[s].pc = "done"
      /\ ~loc[s].raised
      /\ SearchDetermined(s) )
    => /\ Status(loc[s].answer) \notin {"NoCache", "NoMatch"}
       /\ obs[s].generate_calls = 1
       /\ obs[s].context # <<>>

\* C7: a query whose connectivity probe result is False runs offline_rag
\* whatever the preferred mode, and fetch_web_results is not called for it.
C7_FallbackOnDisconnection ==
  \A s \in Sessions :
    (loc[s].pc # "idle" /\ ~loc[s].online_status)
    => /\ obs[s].route = "offline"
       /\ loc[s].pc \notin OnlinePcs
       /\ obs[s].fetch_calls = 0

C7_Witness ==
  \E s \in Sessions :
    /\ loc[s].pc = "done"
    /\ ~loc[s].online_status
    /\ obs[s].radio = OnlineLabel
    /\ obs[s].route = "offline"
    /\ obs[s].generate_calls = 1

\* C8: with an empty document list offline_rag returns the no-data answer
\* with no sources and calls neither the embedder, the index search nor the
\* generation backend.
C8_OfflineNoData ==
  \A s \in Sessions :
    (obs[s].route = "offline" /\ doc_store = <<>>)
    => /\ loc[s].pc \in {"off_check", "done"}
       /\ obs[s].encode_calls = 0
       /\ obs[s].search_calls = 0
       /\ obs[s].generate_calls = 0
       /\ loc[s].pc = "done" =>
            /\ loc[s].answer = NoCacheMsg
            /\ loc[s].docs = <<>>
            /\ loc[s].sources = <<>>
            /\ ~loc[s].raised

C8_Witness ==
  \E s \in Sessions :
    /\ obs[s].route = "offline"
    /\ loc[s].pc = "done"
    /\ doc_store = <<>>
    /\ loc[s].answer = NoCacheMsg

\* C9: when the live search fails or returns nothing, online_rag returns the
\* no-results answer with no sources as a value; add_to_index and the
\* generation backend are not called and the stores and files stay as they
\* were.
C9_OnlineNoResults ==
  /\ [](\A s \in Sessions :
          ( /\ obs[s].route = "online"
            /\ obs[s].fetch_calls = 1
            /\ obs[s].fetched = <<>> )
          => /\ loc[s].pc = "done"
             /\ ~loc[s].raised
             /\ loc[s].answer = NoResultsMsg
             /\ loc[s].sources = <<>>
             /\ obs[s].add_calls = 0
             /\ obs[s].generate_calls = 0)
  /\ [][\A s \in Sessions :
          ( /\ loc[s].pc = "fetch_web_results"
            /\ obs'[s].fetch_calls = 1
            /\ obs'[s].fetched = <<>> )
          => UNCHANGED stores]_vars

C9_Witness ==
  \E s \in Sessions :
    /\ obs[s].route = "online"
    /\ obs[s].fetch_failed
    /\ loc[s].pc = "done"
    /\ loc[s].answer = NoResultsMsg

\* C10: load_faiss returns normally on every pair of files, and when either
\* file is absent or unreadable it returns an empty index with an empty
\* document list.
C10_LoadNeverFails ==
  [][~up =>
       /\ up'
       /\ ( \/ ~Exists(vector_db_file) \/ ~Exists(doc_store_file)
            \/ ReadRaises(vector_db_file) \/ ReadRaises(doc_store_file) )
          => (index' = <<>> /\ doc_store' = <<>>)]_vars

C10_Witness ==
  /\ up
  /\ vector_db_file.st = "ok"
  /\ vector_db_file.data # <<>>
  /\ doc_store_file.st = "corrupt"
  /\ index = <<>>
  /\ doc_store = <<>>

\* C11: when add_to_index has returned, the two files hold what the memory
\* holds: load_faiss on them returns an index and a document list of the same
\* size and content, in the same order, as index and doc_store.
C11_WriteThroughRoundTrip ==
  \A s \in Sessions :
    (loc[s].pc = "for" /\ loc[s].i > 0)
    => LET r == load_faiss(vector_db_file, doc_store_file)
       IN /\ ~r.raised
          /\ r.index = index
          /\ r.docs = doc_store

C11_Witness ==
  \E s \in Sessions :
    /\ loc[s].pc = "for"
    /\ loc[s].i = 2
    /\ Len(index) >= 2
    /\ Len(doc_store) >= 2
    /\ vector_db_file.data = index
    /\ doc_store_file.data = doc_store

\* ------------------------------------------------- concurrent script runs

\* Streamlit runs the script of each session in a thread of its own, on the
\* index and doc_store that st.cache_resource shares; here every session
\* submits one query
SubmitOnce(s) ==
  /\ loc[s].pc = "idle"
  /\ Submit(s)

NextConc ==
  \/ LoadFaiss
  \/ \E s \in Sessions :
       \/ SubmitOnce(s)
       \/ Fetch(s)
       \/ ForDocs(s)
       \/ AddEncode(s)
       \/ AddIndexAdd(s)
       \/ AddDocAppend(s)
       \/ AddWriteIndexOpen(s)
       \/ AddWriteIndexData(s)
       \/ AddNpSaveOpen(s)
       \/ AddNpSaveData(s)
       \/ Generate(s)
       \/ OffCheck(s)
       \/ OffEncode(s)
       \/ OffSearch(s)
       \/ OffFilter(s)

SpecConc == Init /\ [][NextConc]_vars

\* some session is between index.add and doc_store.append of add_to_index
InAppend == \E s \in Sessions : loc[s].pc = "add_doc_append"

\* C12: when two sessions run add_to_index at the same time on the shared
\* stores, their appends do not interleave: whenever no append is half done,
\* the document at each position is the one written with the vector at that
\* position.
C12_SerializedWriters ==
  ~InAppend => Aligned(index, doc_store)

\* C13: an offline_rag that runs while another session is inside add_to_index
\* never reads the stores half appended: when it searches the index and when
\* it looks the labels up in doc_store, the index holds as many vectors as
\* doc_store holds documents.
C13_NoTornReads ==
  [][\A s \in Sessions :
       ( /\ loc[s].pc \in {"off_search", "off_filter"}
         /\ loc'[s].pc # loc[s].pc )
       => Len(index) = Len(doc_store)]_vars

\* C14: while the process lives, every step keeps the entries of index and of
\* doc_store where they are; add_to_index puts its vector and its document at
\* the position equal to the size of the store before the write, so the
\* positions of successive writes increase; nothing but add_to_index changes
\* the in-memory stores.
C14_AppendMonotonicity ==
  [][(up /\ up') =>
       /\ IsPrefix(index, index')
       /\ IsPrefix(doc_store, doc_store')
       /\ \A s \in Sessions :
            (loc[s].pc = "add_index_add" /\ loc'[s].pc # loc[s].pc)
            => /\ Len(index') = Len(index) + 1
               /\ index'[Len(index) + 1] = loc[s].vec
       /\ \A s \in Sessions :
            (loc[s].pc = "add_doc_append" /\ loc'[s].pc # loc[s].pc)
            => /\ Len(doc_store') = Len(doc_store) + 1
               /\ doc_store'[Len(doc_store) + 1] = loc[s].docs[loc[s].i + 1]
       /\ index' # index => \E s \in Sessions : loc[s].pc = "add_index_add"
       /\ doc_store' # doc_store => \E s \in Sessions : loc[s].pc = "add_doc_append"]_vars

C14_Witness ==
  \E s \in Sessions :
    /\ loc[s].pc = "add_write_index"
    /\ loc[s].i = 1
    /\ Len(index) >= 2
    /\ Len(doc_store) >= 2
    /\ index[Len(index)] = loc[s].vec
    /\ doc_store[Len(doc_store)] = loc[s].docs[2]
    /\ doc_store[Len(doc_store) - 1] = loc[s].docs[1]

\* C15: an online_rag whose search returned n >= 1 documents and whose writes
\* all returned has grown index and doc_store by n entries each: the n
\* documents and their vectors, in the order of the search results, at the
\* positions that follow the old ones, also for a text the cache already
\* holds; the context of the prompt is the n texts in the same order.
C15_OnlineOrderingAndGrowth ==
  \A s \in Sessions :
    ( /\ obs[s].route = "online"
      /\ loc[s].pc \in {"generate", "done"}
      /\ ~loc[s].raised
      /\ obs[s].fetched # <<>> )
    => LET n == Len(obs[s].fetched)
       IN /\ Len(index) = obs[s].start_ntotal + n
          /\ Len(doc_store) = obs[s].start_len + n
          /\ obs[s].add_returns = n
          /\ \A j \in 1..n :
               /\ index[obs[s].start_ntotal + j] = Embed(obs[s].fetched[j].text)
               /\ doc_store[obs[s].start_len + j] = obs[s].fetched[j]
          /\ loc[s].docs = obs[s].fetched
          /\ loc[s].pc = "done" => obs[s].context = Context(obs[s].fetched)

\* two different results written after a cached copy of the first
C15_Witness ==
  \E s \in Sessions :
    /\ obs[s].route = "online"
    /\ loc[s].pc = "done"
    /\ ~loc[s].raised
    /\ Len(obs[s].fetched) = 2
    /\ obs[s].fetched[1] # obs[s].fetched[2]
    /\ obs[s].start_len = 1
    /\ doc_store[1] = obs[s].fetched[1]
    /\ obs[s].generate_calls = 1

\* C16: a query calls generate_with_ollama at most once, with a context made
\* from at least one document; what the call returns, a failure message
\* included, is the answer; the no-data, no-match and no-results answers are
\* returned without a generation call.
C16_GenerationAtMostOnce ==
  \A s \in Sessions :
    /\ obs[s].generate_calls <= 1
    /\ obs[s].generate_calls = 1 =>
         /\ obs[s].context # <<>>
         /\ loc[s].pc = "done"
         /\ loc[s].answer \in GenerateResults
    /\ (loc[s].pc = "done" /\ obs[s].generate_calls = 0) =>
         \/ loc[s].raised
         \/ Status(loc[s].answer) \in {"NoCache", "NoMatch", "NoResults"}
    /\ Status(loc[s].answer) \in {"NoCache", "NoMatch", "NoResults"} =>
         obs[s].generate_calls = 0

\* a backend failure returned as the answer after one call
C16_Witness ==
  \E s \in Sessions :
    /\ loc[s].pc = "done"
    /\ obs[s].generate_calls = 1
    /\ loc[s].answer = OllamaErrorMsg
    /\ obs[s].context # <<>>

\* C17: when embedder.encode fails in add_to_index, the exception leaves
\* add_to_index with index, doc_store and both files as they were, so stores
\* that were aligned, or equal to what the files hold, remain so.
C17_FailedWriteLeavesCache ==
  [][\A s \in Sessions :
       (loc[s].pc = "add_encode" /\ loc'[s].raised)
       => /\ UNCHANGED stores
          /\ loc'[s].pc = "done"
          /\ loc'[s].answer = ""
          /\ obs'[s].add_returns = obs[s].add_returns
          /\ Aligned(index, doc_store) => Aligned(index', doc_store')
          /\ (load_faiss(vector_db_file, doc_store_file).index = index
                => load_faiss(vector_db_file', doc_store_file').index = index')
          /\ (load_faiss(vector_db_file, doc_store_file).docs = doc_store
                => load_faiss(vector_db_file', doc_store_file').docs = doc_store')]_vars

\* the second write of a run failed in encode after the first had returned
C17_Witness ==
  \E s \in Sessions :
    /\ loc[s].pc = "done"
    /\ loc[s].raised
    /\ obs[s].add_raised
    /\ faults = 0
    /\ obs[s].add_calls = 2
    /\ obs[s].add_returns = 1
    /\ Len(index) = obs[s].start_ntotal + 1
    /\ Aligned(index, doc_store)
    /\ vector_db_file = OkFile(index)
    /\ doc_store_file = OkFile(doc_store)

AddPcs == OnlinePcs \ {"fetch_web_results", "for"}

\* C18: while the process stays up, no step of a run on the offline route
\* changes index, doc_store or either file, whatever the query, top_k and
\* outcome; the stores change only in a step of add_to_index on the online
\* route, and such a step never shortens index or doc_store.
C18_OfflineReadOnly ==
  [][(up /\ up') =>
       /\ \A s \in Sessions :
            (obs[s].route = "offline" /\ loc[s].pc \notin {"idle", "done"})
            => UNCHANGED stores
       /\ \A s \in Sessions :
            (loc[s].pc \in {"off_check", "off_encode", "off_search", "off_filter"}
               \/ (loc[s].pc = "generate" /\ obs[s].route = "offline"))
            => UNCHANGED stores
       /\ stores' # stores =>
            /\ \E s \in Sessions :
                 /\ loc[s].pc \in AddPcs
                 /\ obs[s].route = "online"
            /\ IsPrefix(index, index')
            /\ IsPrefix(doc_store, doc_store')]_vars

\* an offline run answered from a non-empty cache that it left as it found it
C18_Witness ==
  \E s \in Sessions :
    /\ obs[s].route = "offline"
    /\ loc[s].pc = "done"
    /\ obs[s].search_calls = 1
    /\ obs[s].generate_calls = 1
    /\ loc[s].answer \in GenerateResults
    /\ index # <<>>
    /\ Len(index) = obs[s].start_ntotal
    /\ Len(doc_store) = obs[s].start_len
    /\ vector_db_file = OkFile(index)
    /\ doc_store_file = OkFile(doc_store)
====
